---- MODULE Spec2Model ----
(***************************************************************************)
(* Model of the belux-cdm coordinate scripts:                              *)
(*   scripts/convert.py              runway transcoder (decimal <-> DMS)   *)
(*   scripts/convert-coordinates.py  generic transcoder (decimal -> DMS)   *)
(*   scripts/geojson.py              GeoJSON emitter                       *)
(*                                                                         *)
(* Text is a sequence of one-character strings, so that strip, split,      *)
(* formatting and parsing are computed and not assumed.                    *)
(*                                                                         *)
(* A Python float holding degrees is a record [kind, neg, mag]: kind is    *)
(* "fin", "nan" or "inf", neg the sign bit (so -0.0 exists) and mag the    *)
(* magnitude in units of 1/Sub millisecond of arc (fixed point).  The      *)
(* rounding error of the IEEE operations (below 1e-12 degree) is under     *)
(* the resolution of the model.                                            *)
(*                                                                         *)
(* Intermediate values are handed from one operator to the next as         *)
(* parameters (one operator per stage of a function) rather than bound by  *)
(* long LET chains, which keeps every evaluation linear.                   *)
(***************************************************************************)
EXTENDS Integers, Sequences, FiniteSets, TLC

\* ---------------------------------------------------------------- bounds
\* Fixed-point resolution: units per millisecond of arc.
Sub == 2
\* Largest whole degree among the sampled coordinate values.
MaxDeg == 1
\* Largest number of input lines of a run.
MaxLines == 2

\* ------------------------------------------------------------- constants
MsPerSec == 1000
SecPerMin == 60
MinPerDeg == 60
\* argparse default of --decimal-places
DefaultDecimalPlaces == 7
\* detect_mode: number of coordinate fields, and the majority threshold
CoordCount == 8
MajorityThreshold == 4

SecUnit == MsPerSec * Sub
MinUnit == SecPerMin * SecUnit
DegUnit == MinPerDeg * MinUnit

\* ------------------------------------------------------------------ text
NL == "\n"
Whitespace == {" ", NL}
Digits == <<"0", "1", "2", "3", "4", "5", "6", "7", "8", "9">>
DigitSet == {Digits[k] : k \in 1..10}

IsDigit(c) == c \in DigitSet

DigitVal(c) == (CHOOSE k \in 1..10 : Digits[k] = c) - 1

\* str.upper() on the letters the scripts look at
Upper(c) ==
    CASE c = "n" -> "N"
      [] c = "s" -> "S"
      [] c = "e" -> "E"
      [] c = "w" -> "W"
      [] OTHER -> c

RECURSIVE LStrip(_)
\* str.lstrip()
LStrip(s) ==
    IF s # <<>> /\ Head(s) \in Whitespace THEN LStrip(Tail(s)) ELSE s

RECURSIVE RStrip(_)
\* str.rstrip()
RStrip(s) ==
    IF s # <<>> /\ s[Len(s)] \in Whitespace
    THEN RStrip(SubSeq(s, 1, Len(s) - 1))
    ELSE s

\* str.strip()
Strip(s) == RStrip(LStrip(s))

RECURSIVE RStripNL(_)
\* str.rstrip("\n")
RStripNL(s) ==
    IF s # <<>> /\ s[Len(s)] = NL
    THEN RStripNL(SubSeq(s, 1, Len(s) - 1))
    ELSE s

\* str.startswith(c) for a one-character prefix
StartsWith(s, c) == s # <<>> /\ Head(s) = c

\* the parts of s between the separator positions seps
SplitAt(s, seps) ==
    LET \* the position of the n-th separator; 0 and Len(s) + 1 bound the text
        at(n) == IF n = 0 THEN 0
                 ELSE IF n > Cardinality(seps) THEN Len(s) + 1
                 ELSE CHOOSE p \in seps : Cardinality({q \in seps : q < p}) = n - 1
    IN  [n \in 1..(Cardinality(seps) + 1) |-> SubSeq(s, at(n - 1) + 1, at(n) - 1)]

\* a function over 1..n as a tuple
RECURSIVE AsTuple(_, _)
AsTuple(f, n) == IF n = 0 THEN <<>> ELSE Append(AsTuple(f, n - 1), f[n])

\* str.split(sep): always at least one part
Split(s, sep) ==
    AsTuple(SplitAt(s, {k \in 1..Len(s) : s[k] = sep}),
            Cardinality({k \in 1..Len(s) : s[k] = sep}) + 1)

RECURSIVE Join(_, _)
\* sep.join(parts)
Join(parts, sep) ==
    IF parts = <<>> THEN <<>>
    ELSE IF Len(parts) = 1 THEN parts[1]
    ELSE parts[1] \o <<sep>> \o Join(Tail(parts), sep)

\* "c" in s
Contains(s, c) == \E k \in 1..Len(s) : s[k] = c

\* parts[a:b] of Python (0-based, end exclusive, clipped)
Slice(parts, a, b) ==
    SubSeq(parts, a + 1, IF b < Len(parts) THEN b ELSE Len(parts))

Min(S) == CHOOSE x \in S : \A y \in S : x <= y

RECURSIVE NatDigits(_)
NatDigits(n) ==
    IF n < 10 THEN <<Digits[n + 1]>>
    ELSE NatDigits(n \div 10) \o <<Digits[(n % 10) + 1]>>

RECURSIVE ZeroFill(_, _)
ZeroFill(s, width) ==
    IF Len(s) >= width THEN s ELSE ZeroFill(<<"0">> \o s, width)

\* f"{n:0{width}d}" for n >= 0: zero-padded to at least width digits
Pad(n, width) == ZeroFill(NatDigits(n), width)

AllDigits(s) == s # <<>> /\ \A k \in 1..Len(s) : IsDigit(s[k])

RECURSIVE DigitsVal(_)
DigitsVal(s) ==
    IF s = <<>> THEN 0
    ELSE DigitsVal(SubSeq(s, 1, Len(s) - 1)) * 10 + DigitVal(s[Len(s)])

\* int() of a text without surrounding whitespace and without sign
ParseDigits(neg, body) ==
    IF AllDigits(body)
    THEN [ok |-> TRUE, val |-> IF neg THEN 0 - DigitsVal(body) ELSE DigitsVal(body)]
    ELSE [ok |-> FALSE, val |-> 0]

ParseSigned(t) ==
    IF t # <<>> /\ Head(t) \in {"-", "+"}
    THEN ParseDigits(Head(t) = "-", Tail(t))
    ELSE ParseDigits(FALSE, t)

\* int(s): surrounding whitespace and one sign are accepted
ParseInt(s) == ParseSigned(Strip(s))

\* ---------------------------------------------------------------- floats
Fin(neg, mag) == [kind |-> "fin", neg |-> neg, mag |-> mag]
NaN == [kind |-> "nan", neg |-> FALSE, mag |-> 0]
Inf(neg) == [kind |-> "inf", neg |-> neg, mag |-> 0]

\* value >= 0 (true of -0.0, false of nan)
GeZero(value) ==
    \/ value.kind = "fin" /\ (~value.neg \/ value.mag = 0)
    \/ value.kind = "inf" /\ ~value.neg

\* the float of a signed number of units
FromInt(n) == IF n < 0 THEN Fin(TRUE, 0 - n) ELSE Fin(FALSE, n)

\* -value
Negate(value) == [value EXCEPT !.neg = ~value.neg]

RECURSIVE Pow10(_)
Pow10(k) == IF k = 0 THEN 1 ELSE 10 * Pow10(k - 1)

\* round(num / den) to an integer, ties to even, for num >= 0 and den > 0
RoundDiv(num, den) ==
    LET q == num \div den
        r == num % den
    IN  IF 2 * r < den THEN q
        ELSE IF 2 * r > den THEN q + 1
        ELSE IF q % 2 = 0 THEN q ELSE q + 1

\* Results of an operation that may raise: exc is "" or the exception's type.
Return(val) == [exc |-> "", msg |-> "", val |-> val]
Raise(exc, msg, val) == [exc |-> exc, msg |-> msg, val |-> val]

RECURSIVE FracUnits(_, _)
\* the units of the fraction digits fs, the first of which is digit j
FracUnits(fs, j) ==
    IF fs = <<>> \/ j > 7 THEN 0
    ELSE (DigitVal(Head(fs)) * DegUnit) \div Pow10(j) + FracUnits(Tail(fs), j + 1)

\* float() of digits [. digits], split at the point
ParseFloatParts(neg, ip, fp, n) ==
    IF /\ n \in {1, 2}
       /\ ip # <<>> \/ fp # <<>>
       /\ ip = <<>> \/ AllDigits(ip)
       /\ fp = <<>> \/ AllDigits(fp)
    THEN Return(Fin(neg, DigitsVal(ip) * DegUnit + FracUnits(fp, 1)))
    ELSE Raise("ValueError", "float", NaN)

ParseFloatSplit(neg, ps) ==
    ParseFloatParts(neg, ps[1], IF Len(ps) = 2 THEN ps[2] ELSE <<>>, Len(ps))

ParseFloatBody(neg, body) ==
    IF body = <<"n", "a", "n">> THEN Return(NaN)
    ELSE IF body = <<"i", "n", "f">> THEN Return(Inf(neg))
    ELSE ParseFloatSplit(neg, Split(body, "."))

ParseFloatSigned(t) ==
    IF t # <<>> /\ Head(t) \in {"-", "+"}
    THEN ParseFloatBody(Head(t) = "-", Tail(t))
    ELSE ParseFloatBody(FALSE, t)

\* float(s): [sign] digits [. digits], [sign] "nan", [sign] "inf"
\* (exponents and underscores are not modelled)
ParseFloat(s) == ParseFloatSigned(Strip(s))

\* ----------------------------------------------------------- conversions
\* decimal_to_dms_hem, lines 50-53
Hemisphere(value, is_lat) ==
    IF is_lat
    THEN (IF GeZero(value) THEN "N" ELSE "S")
    ELSE (IF GeZero(value) THEN "E" ELSE "W")

\* convert.py: decimal_to_dms_hem, lines 55-61: degrees, minutes and
\* the seconds rounded to milliseconds (round(seconds, 3)) of v = abs(value)
SplitDms(v) ==
    LET deg == v \div DegUnit
        \* (v - deg) * 60.0, in units of 1/MinUnit minute
        minutes_full == v - deg * DegUnit
        minute == minutes_full \div MinUnit
        \* (minutes_full - minute) * 60.0, in units of 1/SecUnit second
        seconds == minutes_full - minute * MinUnit
    IN  [deg |-> deg, minute |-> minute, seconds |-> RoundDiv(seconds, Sub)]

\* Carry without the rollover of the minute: minute 60 is kept
CarryKeepsMinute(d) ==
    LET carry_s == d.seconds >= SecPerMin * MsPerSec
    IN  [deg |-> d.deg,
         minute |-> IF carry_s THEN d.minute + 1 ELSE d.minute,
         seconds |-> IF carry_s THEN d.seconds - SecPerMin * MsPerSec ELSE d.seconds]

\* Carry that rolls the minute over and forgets the degree
CarryDropsDegree(d) ==
    LET carry_s == d.seconds >= SecPerMin * MsPerSec
        minute == IF carry_s THEN d.minute + 1 ELSE d.minute
        carry_m == minute >= MinPerDeg
    IN  [deg |-> d.deg,
         minute |-> IF carry_m THEN minute - MinPerDeg ELSE minute,
         seconds |-> IF carry_s THEN d.seconds - SecPerMin * MsPerSec ELSE d.seconds]

\* convert.py: decimal_to_dms_hem, lines 62-67: the carry of the rounded seconds
Carry(d) ==
    LET carry_s == d.seconds >= SecPerMin * MsPerSec
        minute == IF carry_s THEN d.minute + 1 ELSE d.minute
        carry_m == minute >= MinPerDeg
    IN  [deg |-> IF carry_m THEN d.deg + 1 ELSE d.deg,
         minute |-> IF carry_m THEN minute - MinPerDeg ELSE minute,
         seconds |-> IF carry_s THEN d.seconds - SecPerMin * MsPerSec
                     ELSE d.seconds]

\* convert.py: decimal_to_dms_hem, lines 69-87: the strings, and the carry of
\* a millisecond part of 1000
Render(hem, c) ==
    LET deg_str0 == Pad(c.deg, 3)
        min_str0 == Pad(c.minute, 2)
        sec_int0 == c.seconds \div MsPerSec
        \* int(round((seconds - sec_int) * 1000.0))
        sec_frac0 == c.seconds - sec_int0 * MsPerSec
        over_f == sec_frac0 = MsPerSec
        over_s == over_f /\ sec_int0 + 1 >= SecPerMin
        over_m == over_s /\ c.minute + 1 >= MinPerDeg
        sec_int == IF over_s THEN 0 ELSE IF over_f THEN sec_int0 + 1 ELSE sec_int0
        sec_frac == IF over_f THEN 0 ELSE sec_frac0
        \* deg_str and min_str are rendered again only in the innermost branch
        deg_str == IF over_m THEN Pad(c.deg + 1, 3) ELSE deg_str0
        min_str == IF over_m THEN Pad(0, 2) ELSE min_str0
    IN  <<hem>> \o deg_str \o <<".">> \o min_str \o <<".">>
        \o Pad(sec_int, 2) \o <<".">> \o Pad(sec_frac, 3)

\* convert.py: decimal degrees to hemisphere DMS
decimal_to_dms_hem(value, is_lat) ==
    IF value.kind = "nan" THEN Raise("ValueError", "int(nan)", <<>>)
    ELSE IF value.kind = "inf" THEN Raise("OverflowError", "int(inf)", <<>>)
    ELSE Return(Render(Hemisphere(value, is_lat), Carry(SplitDms(value.mag))))

\* convert-coordinates.py: decimal_to_dms_hem, lines 34-41: degrees, minutes and
\* the seconds rounded to milliseconds (round(seconds, 3)) of v = abs(value)
cc_SplitDms(v) ==
    LET deg == v \div DegUnit
        \* (v - deg) * 60.0, in units of 1/MinUnit minute
        minutes_full == v - deg * DegUnit
        minute == minutes_full \div MinUnit
        \* (minutes_full - minute) * 60.0, in units of 1/SecUnit second
        seconds == minutes_full - minute * MinUnit
    IN  [deg |-> deg, minute |-> minute, seconds |-> RoundDiv(seconds, Sub)]

\* convert-coordinates.py: decimal_to_dms_hem, lines 42-47: the carry of the rounded seconds
cc_Carry(d) ==
    LET carry_s == d.seconds >= SecPerMin * MsPerSec
        minute == IF carry_s THEN d.minute + 1 ELSE d.minute
        carry_m == minute >= MinPerDeg
    IN  [deg |-> IF carry_m THEN d.deg + 1 ELSE d.deg,
         minute |-> IF carry_m THEN minute - MinPerDeg ELSE minute,
         seconds |-> IF carry_s THEN d.seconds - SecPerMin * MsPerSec
                     ELSE d.seconds]

\* convert-coordinates.py: decimal_to_dms_hem, lines 50-70: the strings, and the carry of
\* a millisecond part of 1000
cc_Render(hem, c) ==
    LET deg_str0 == Pad(c.deg, 3)
        min_str0 == Pad(c.minute, 2)
        sec_int0 == c.seconds \div MsPerSec
        \* int(round((seconds - sec_int) * 1000.0))
        sec_frac0 == c.seconds - sec_int0 * MsPerSec
        over_f == sec_frac0 = MsPerSec
        over_s == over_f /\ sec_int0 + 1 >= SecPerMin
        over_m == over_s /\ c.minute + 1 >= MinPerDeg
        sec_int == IF over_s THEN 0 ELSE IF over_f THEN sec_int0 + 1 ELSE sec_int0
        sec_frac == IF over_f THEN 0 ELSE sec_frac0
        \* deg_str and min_str are rendered again only in the innermost branch
        deg_str == IF over_m THEN Pad(c.deg + 1, 3) ELSE deg_str0
        min_str == IF over_m THEN Pad(0, 2) ELSE min_str0
    IN  <<hem>> \o deg_str \o <<".">> \o min_str \o <<".">>
        \o Pad(sec_int, 2) \o <<".">> \o Pad(sec_frac, 3)

\* convert-coordinates.py: decimal degrees to hemisphere DMS
cc_decimal_to_dms_hem(value, is_lat) ==
    IF value.kind = "nan" THEN Raise("ValueError", "int(nan)", <<>>)
    ELSE IF value.kind = "inf" THEN Raise("OverflowError", "int(inf)", <<>>)
    ELSE Return(cc_Render(Hemisphere(value, is_lat), cc_Carry(cc_SplitDms(value.mag))))

\* DmsValue that negates the southern hemisphere only
DmsValueSouthOnly(hem, deg, minute, sec, msec) ==
    IF ~(deg.ok /\ minute.ok /\ sec.ok /\ msec.ok)
    THEN Raise("ValueError", "non-numeric", NaN)
    ELSE IF ~(0 <= minute.val /\ minute.val < MinPerDeg)
    THEN Raise("ValueError", "minutes range", NaN)
    ELSE IF ~(0 <= sec.val /\ sec.val < SecPerMin)
    THEN Raise("ValueError", "seconds range", NaN)
    ELSE IF ~(0 <= msec.val /\ msec.val < MsPerSec)
    THEN Raise("ValueError", "milliseconds range", NaN)
    ELSE Return(IF hem = "S"
                THEN Negate(FromInt(deg.val * DegUnit + minute.val * MinUnit
                                    + (sec.val * MsPerSec + msec.val) * Sub))
                ELSE FromInt(deg.val * DegUnit + minute.val * MinUnit
                             + (sec.val * MsPerSec + msec.val) * Sub))

\* DmsValue: the checks and the sum of dms_hem_to_decimal, lines 114-125
DmsValue(hem, deg, minute, sec, msec) ==
    IF ~(deg.ok /\ minute.ok /\ sec.ok /\ msec.ok)
    THEN Raise("ValueError", "non-numeric", NaN)
    ELSE IF ~(0 <= minute.val /\ minute.val < MinPerDeg)
    THEN Raise("ValueError", "minutes range", NaN)
    ELSE IF ~(0 <= sec.val /\ sec.val < SecPerMin)
    THEN Raise("ValueError", "seconds range", NaN)
    ELSE IF ~(0 <= msec.val /\ msec.val < MsPerSec)
    THEN Raise("ValueError", "milliseconds range", NaN)
    ELSE Return(IF hem \in {"S", "W"}
                THEN Negate(FromInt(deg.val * DegUnit + minute.val * MinUnit
                                    + (sec.val * MsPerSec + msec.val) * Sub))
                ELSE FromInt(deg.val * DegUnit + minute.val * MinUnit
                             + (sec.val * MsPerSec + msec.val) * Sub))

\* dms_hem_to_decimal, lines 101-112
DmsGroups(hem, parts) ==
    IF Len(parts) # 4 THEN Raise("ValueError", "groups", NaN)
    ELSE DmsValue(hem, ParseInt(parts[1]), ParseInt(parts[2]),
                  ParseInt(parts[3]), ParseInt(parts[4]))

\* dms_hem_to_decimal, lines 92-99, of the stripped text
DmsStripped(s, is_lat) ==
    IF Len(s) < 2 THEN Raise("ValueError", "too short", NaN)
    ELSE IF is_lat /\ Upper(s[1]) \notin {"N", "S"}
    THEN Raise("ValueError", "latitude hemisphere", NaN)
    ELSE IF ~is_lat /\ Upper(s[1]) \notin {"E", "W"}
    THEN Raise("ValueError", "longitude hemisphere", NaN)
    ELSE DmsGroups(Upper(s[1]), Split(Tail(s), "."))

\* convert.py: hemisphere DMS to decimal degrees
dms_hem_to_decimal(text, is_lat) == DmsStripped(Strip(text), is_lat)

\* convert.py: f"{value:.{places}f}" of a finite value (round half to even);
\* DegUnit = (DegUnit / 10^5) * 10^5, which keeps the products in range
format_decimal(value, places) ==
    LET ip0 == value.mag \div DegUnit
        fr == value.mag % DegUnit
        up == IF places > 5 THEN places - 5 ELSE 0
        down == IF places < 5 THEN 5 - places ELSE 0
        scaled0 == RoundDiv(fr * Pow10(up), (DegUnit \div Pow10(5)) * Pow10(down))
        over == scaled0 = Pow10(places)
    IN  (IF value.neg THEN <<"-">> ELSE <<>>)
        \o NatDigits(IF over THEN ip0 + 1 ELSE ip0)
        \o (IF places > 0
            THEN <<".">> \o Pad(IF over THEN 0 ELSE scaled0, places)
            ELSE <<>>)

\* convert.py: DMS_RE, ^[NSEW]\d{3}\.\d{2}\.\d{2}\.\d{3}$ ignoring case
DMS_RE(s) ==
    /\ Len(s) = 14
    /\ Upper(s[1]) \in {"N", "S", "E", "W"}
    /\ \A k \in {2, 3, 4, 6, 7, 9, 10, 12, 13, 14} : IsDigit(s[k])
    /\ \A k \in {5, 8, 11} : s[k] = "."

looks_like_dms(s) == DMS_RE(Strip(s))

looks_like_decimal(s) == ParseFloat(s).exc = ""

\* Vote with a strict threshold: 4 hits of one kind no longer decide
VoteStrict(dms_hits, dec_hits) ==
    IF dms_hits = CoordCount /\ dec_hits = 0 THEN "True"
    ELSE IF dec_hits = CoordCount /\ dms_hits = 0 THEN "False"
    ELSE IF dms_hits > dec_hits /\ dms_hits > MajorityThreshold THEN "True"
    ELSE IF dec_hits > dms_hits /\ dec_hits > MajorityThreshold THEN "False"
    ELSE "None"

\* detect_mode, lines 143-153: the vote on the two counts
Vote(dms_hits, dec_hits) ==
    IF dms_hits = CoordCount /\ dec_hits = 0 THEN "True"
    ELSE IF dec_hits = CoordCount /\ dms_hits = 0 THEN "False"
    ELSE IF dms_hits > dec_hits /\ dms_hits >= MajorityThreshold THEN "True"
    ELSE IF dec_hits > dms_hits /\ dec_hits >= MajorityThreshold THEN "False"
    ELSE "None"

DmsHits(coord_fields) ==
    Cardinality({k \in DOMAIN coord_fields : looks_like_dms(coord_fields[k])})

DecHits(coord_fields) ==
    Cardinality({k \in DOMAIN coord_fields : looks_like_decimal(coord_fields[k])})

\* convert.py: "True" is reverse (DMS -> decimal), "False" is forward
\* (decimal -> DMS), "None" is cannot tell
detect_mode(parts) ==
    Vote(DmsHits(Slice(parts, 2, 2 + CoordCount)),
         DecHits(Slice(parts, 2, 2 + CoordCount)))

\* --------------------------------------------------------------- records
\* convert_record_line, lines 173-174
FormatOrRaise(dec, decimal_places) ==
    IF dec.exc # "" THEN Raise(dec.exc, dec.msg, <<>>)
    ELSE Return(format_decimal(dec.val, decimal_places))

\* convert_record_line, lines 176-177
DmsOrRaise(dec, is_lat) ==
    IF dec.exc # "" THEN Raise(dec.exc, dec.msg, <<>>)
    ELSE decimal_to_dms_hem(dec.val, is_lat)

\* ConvertField that keeps a token it cannot convert
ConvertFieldLenient(parts, j, reverse, decimal_places) ==
    IF reverse
    THEN IF dms_hem_to_decimal(Strip(parts[j + 3]), j % 2 = 0).exc = ""
         THEN FormatOrRaise(dms_hem_to_decimal(Strip(parts[j + 3]), j % 2 = 0),
                            decimal_places)
         ELSE Return(Strip(parts[j + 3]))
    ELSE IF ParseFloat(Strip(parts[j + 3])).exc # ""
         THEN Return(Strip(parts[j + 3]))
         ELSE DmsOrRaise(ParseFloat(Strip(parts[j + 3])), j % 2 = 0)

\* convert_record_line: one pass of the loop over indices 2..9 (j = 0..7)
ConvertField(parts, j, reverse, decimal_places) ==
    IF reverse
    THEN FormatOrRaise(dms_hem_to_decimal(Strip(parts[j + 3]), j % 2 = 0),
                       decimal_places)
    ELSE DmsOrRaise(ParseFloat(Strip(parts[j + 3])), j % 2 = 0)

\* convert_record_line: the first field that raises ends the loop
Assemble(parts, res, failing) ==
    IF failing # {}
    THEN Raise(res[Min(failing)].exc, res[Min(failing)].msg, <<>>)
    ELSE Return(Join([k \in 1..Len(parts) |->
                         IF k - 1 \in 2..(1 + CoordCount) THEN res[k - 2].val
                         ELSE parts[k]], ":"))

ConvertFields(parts, res) ==
    Assemble(parts, res, {j \in 1..CoordCount : res[j].exc # ""})

\* convert_record_line, lines 161-179
ConvertParts(parts, reverse, decimal_places) ==
    IF Len(parts) \notin {11, 12}
    THEN Raise("ValueError", "field count", <<>>)
    ELSE ConvertFields(parts,
            AsTuple([j \in 1..CoordCount |->
                        ConvertField(parts, j - 1, reverse, decimal_places)],
                    CoordCount))

\* convert.py
convert_record_line(line, reverse, decimal_places) ==
    IF Strip(line) = <<>> THEN Return(RStripNL(line))
    ELSE ConvertParts(Split(Strip(line), ":"), reverse, decimal_places)

\* convert_line, lines 108-109
PairDms(lat_d, lon_d) ==
    IF lat_d.exc # "" THEN Raise(lat_d.exc, lat_d.msg, <<>>)
    ELSE IF lon_d.exc # "" THEN Raise(lon_d.exc, lon_d.msg, <<>>)
    ELSE Return(<<lat_d.val, lon_d.val>>)

\* convert_line, lines 102-106
PairFloats(lat, lon) ==
    IF lat.exc # "" \/ lon.exc # ""
    THEN Raise("ValueError", "non-numeric", <<>>)
    ELSE PairDms(cc_decimal_to_dms_hem(lat.val, TRUE),
                 cc_decimal_to_dms_hem(lon.val, FALSE))

\* convert_line: one pass of the loop over the pairs (k = 1, 2, ...)
ConvertPair(coord_fields, k) ==
    PairFloats(ParseFloat(Strip(coord_fields[2 * k - 1])),
               ParseFloat(Strip(coord_fields[2 * k])))

\* convert_line: the first pair that raises ends the loop
AssemblePairs(head, tail, res, failing) ==
    IF failing # {}
    THEN Raise(res[Min(failing)].exc, res[Min(failing)].msg, <<>>)
    ELSE Return(Join(head
                     \o [k \in 1..(2 * Len(res)) |->
                            IF k % 2 = 1 THEN res[(k + 1) \div 2].val[1]
                            ELSE res[k \div 2].val[2]]
                     \o <<tail>>, ":"))

ConvertPairs(head, tail, res) ==
    AssemblePairs(head, tail, res, {k \in 1..Len(res) : res[k].exc # ""})

\* convert_line, lines 91-111
ConvertCoords(head, tail, coord_fields) ==
    IF Len(coord_fields) % 2 # 0
    THEN Raise("ValueError", "odd coordinate fields", <<>>)
    ELSE ConvertPairs(head, tail,
            AsTuple([k \in 1..(Len(coord_fields) \div 2) |->
                        ConvertPair(coord_fields, k)],
                    Len(coord_fields) \div 2))

\* convert_line, lines 87-93
ConvertStripped(stripped, parts) ==
    IF stripped = <<>> THEN Return(<<>>)
    ELSE IF StartsWith(stripped, "#") THEN Return(<<>>)
    ELSE IF Len(parts) < 5 THEN Raise("ValueError", "too few fields", <<>>)
    ELSE ConvertCoords(Slice(parts, 0, 2), parts[Len(parts)],
                       SubSeq(parts, 3, Len(parts) - 1))

\* convert-coordinates.py
convert_line(line) == ConvertStripped(Strip(line), Split(Strip(line), ":"))

\* geojson.py: no feature for this line
None == [type |-> "None"]

\* parse_line, lines 82-88: the taxitime as int, float or text
Taxitime(taxitime_str) ==
    IF ParseInt(taxitime_str).ok THEN [as |-> "int", text |-> taxitime_str]
    ELSE IF ParseFloat(taxitime_str).exc = ""
    THEN [as |-> "float", text |-> taxitime_str]
    ELSE [as |-> "str", text |-> taxitime_str]

RECURSIVE NonEmpty(_)
\* parse_line, line 44: [r.strip() for r in ... if r.strip()]
NonEmpty(ss) ==
    IF ss = <<>> THEN <<>>
    ELSE IF Strip(Head(ss)) # <<>> THEN <<Strip(Head(ss))>> \o NonEmpty(Tail(ss))
    ELSE NonEmpty(Tail(ss))

\* parse_line, lines 64-73; GeoJSON is [lon, lat]
Geometry(coords) ==
    IF Len(coords) = 4
    THEN [type |-> "Polygon", coordinates |-> Append(coords, coords[1])]
    ELSE [type |-> "LineString", coordinates |-> coords]

\* parse_line, lines 58-98
Feature(line, parts, has_remarks, remarks, taxitime_str, floats) ==
    IF \E k \in DOMAIN floats : floats[k].exc # ""
    THEN Raise("ValueError", "float", None)
    ELSE Return([type |-> "Feature",
                 geometry |-> Geometry([k \in 1..(Len(floats) \div 2) |->
                                 <<floats[2 * k].val, floats[2 * k - 1].val>>]),
                 airport |-> Strip(parts[1]),
                 runway |-> Strip(parts[2]),
                 taxitime |-> Taxitime(taxitime_str),
                 has_remarks |-> has_remarks,
                 remarks |-> remarks,
                 raw |-> line])

\* parse_line, lines 47-56
Tokens(line, parts, has_remarks, remarks, rest) ==
    IF rest = <<>> THEN Return(None)
    ELSE IF Len(rest) - 1 < 4 \/ (Len(rest) - 1) % 2 # 0
    THEN Raise("ValueError", "coordinate token count", None)
    ELSE Feature(line, parts, has_remarks, remarks, Strip(rest[Len(rest)]),
                 AsTuple([k \in 1..(Len(rest) - 1) |-> ParseFloat(rest[k])],
                         Len(rest) - 1))

\* parse_line, lines 39-45
Remarks(line, parts, rest) ==
    IF rest # <<>> /\ Contains(rest[Len(rest)], ",")
    THEN Tokens(line, parts, TRUE, NonEmpty(Split(rest[Len(rest)], ",")),
                SubSeq(rest, 1, Len(rest) - 1))
    ELSE Tokens(line, parts, FALSE, <<>>, rest)

\* parse_line, lines 28-39
ParseStripped(line, parts) ==
    IF line = <<>> \/ StartsWith(line, "#") THEN Return(None)
    ELSE IF Len(parts) < 3 THEN Return(None)
    ELSE Remarks(line, parts, Tail(Tail(parts)))

\* geojson.py
parse_line(raw) == ParseStripped(Strip(raw), Split(Strip(raw), ":"))

\* ---------------------------------------------------------------- inputs
\* Sampled tokens and lines (inputs of the runs, not code).
TokDmsLat == <<"N", "0", "0", "1", ".", "3", "0", ".", "1", "5", ".", "5", "0", "0">>
TokDmsLon == <<"e", "0", "0", "0", ".", "2", "8", ".", "3", "2", ".", "4", "6", "8">>
TokDmsRange == <<"N", "0", "0", "1", ".", "6", "1", ".", "0", "0", ".", "0", "0", "0">>
TokDec == <<"1", ".", "5">>
TokDecNeg == <<"-", "0", ".", "2", "5">>
TokJunk == <<"a", "b", "c">>
TokNan == <<"n", "a", "n">>
TokInf == <<"i", "n", "f">>

\* airport:runway:<coordinate fields>:<tail fields>
MkLine(coords, tails) ==
    Join(<<<<"A">>, <<"0", "9">>>> \o coords \o tails, ":")

TailTaxi == <<<<"5">>>>
TailRemarks == <<<<"5">>, <<"R", "1", ",", "R", "2">>>>

\* the token of kind k at coordinate position j (0-based; even is latitude)
Tok(k, j) ==
    CASE k = "dms" -> IF j % 2 = 0 THEN TokDmsLat ELSE TokDmsLon
      [] k = "dec" -> IF j % 2 = 0 THEN TokDec ELSE TokDecNeg
      [] k = "junk" -> TokJunk
      [] k = "range" -> TokDmsRange
      [] k = "axis" -> IF j % 2 = 0 THEN TokDmsLon ELSE TokDmsLat
      [] k = "nan" -> TokNan
      [] k = "inf" -> TokInf

\* a runway record whose coordinate fields have the kinds ks[1..n]
Rec(ks, tails) == MkLine([j \in 1..Len(ks) |-> Tok(ks[j], j - 1)], tails)

Rep(k, n) == [j \in 1..n |-> k]

LineDec == Rec(Rep("dec", 8), TailTaxi)
LineDms == Rec(Rep("dms", 8), TailRemarks)
LineMix == Rec(Rep("dms", 5) \o Rep("dec", 3), TailTaxi)
LineJunk == Rec(Rep("dec", 7) \o Rep("junk", 1), TailTaxi)
LineTwoPairs == Rec(Rep("dec", 4), TailTaxi)
LineOnePair == <<" ">> \o Rec(Rep("dec", 2), TailTaxi)
LineOdd == Rec(Rep("dec", 3), TailTaxi)
LineTwoFields == Rec(<<>>, <<>>)
LineComment == <<"#", " ", "n">>
LineIndented == <<" ", "#", "n", " ">>
LineBlank == <<>>
LineSpaces == <<" ", " ">>

LinePool ==
    {LineDec, LineDms, LineMix, LineJunk, LineTwoPairs, LineOnePair, LineOdd,
     LineTwoFields, LineComment, LineIndented, LineBlank, LineSpaces}

\* ----------------------------------------------------------------- state
VARIABLES
    tool,       \* which script runs: "convert", "convert-coordinates", "geojson"
    args,       \* convert.py: the parsed arguments reverse, force, decimal_places
    input,      \* the raw lines the script iterates over
    i,          \* how many of them the loop has consumed
    out_lines,  \* out_lines (features, for geojson.py)
    stderr,     \* the warnings written to the error stream
    output,     \* the output file or standard output: written, text
    pc,         \* "loop", "done" or "failed"
    error,      \* the exception that ended the run: exc, msg, hint, lineno
    locals,     \* convert.py, main: detected, chosen_reverse, set at line `at`
    conv        \* a single coordinate taken through the two conversions

vars == <<tool, args, input, i, out_lines, stderr, output, pc, error, locals, conv>>

NoArgs == [reverse |-> FALSE, force |-> FALSE, decimal_places |-> DefaultDecimalPlaces]
NoError == [exc |-> "", msg |-> "", hint |-> "", lineno |-> 0]
NoLocals == [detected |-> "unset", chosen_reverse |-> FALSE, at |-> 0]
NoConv == [script |-> "", value |-> NaN, is_lat |-> FALSE, step |-> "idle",
           dms |-> <<>>, back |-> NaN, exc |-> ""]

\* iter_input_lines: the lines of a file or of standard input end with a
\* newline, except perhaps the last; a direct record is a single line.
\* geojson.py reads with splitlines(), which drops the line ends.
RawLines(contents, last_nl, keepends) ==
    [k \in 1..Len(contents) |->
        IF keepends /\ (k < Len(contents) \/ last_nl)
        THEN Append(contents[k], NL) ELSE contents[k]]

Contents == UNION {[1..n -> LinePool] : n \in 0..MaxLines}

\* an empty last line without a line end exists only as a direct record
Iterable(contents, last_nl) ==
    last_nl \/ Len(contents) = 1 \/ (contents # <<>> /\ contents[Len(contents)] # <<>>)

Start ==
    /\ i = 0
    /\ out_lines = <<>>
    /\ stderr = <<>>
    /\ output = [written |-> FALSE, text |-> <<>>]
    /\ pc = "loop"
    /\ error = NoError
    /\ locals = NoLocals
    /\ conv = NoConv

Init ==
    /\ tool \in {"convert", "convert-coordinates", "geojson"}
    /\ args \in IF tool = "convert"
                THEN [reverse : BOOLEAN, force : BOOLEAN,
                      decimal_places : {DefaultDecimalPlaces}]
                ELSE {NoArgs}
    /\ \E contents \in Contents, last_nl \in BOOLEAN :
          /\ tool = "geojson" => last_nl
          /\ Iterable(contents, last_nl)
          /\ input = RawLines(contents, last_nl, tool # "geojson")
    /\ Start

\* ------------------------------------------------------------ convert.py
\* Direction that warns of the detected direction but keeps the requested one
DirectionNoSwitch(a, detected) ==
    IF ~a.force /\ detected # "None" /\ detected # (IF a.reverse THEN "True" ELSE "False")
    THEN [chosen_reverse |-> a.reverse,
          warning |-> <<IF detected = "True" THEN "looks like DMS"
                        ELSE "looks like decimal">>]
    ELSE [chosen_reverse |-> a.reverse, warning |-> <<>>]

\* main, lines 236-245: the direction of one data line and its warning
Direction(a, detected) ==
    IF ~a.force /\ detected # "None" /\ detected # (IF a.reverse THEN "True" ELSE "False")
    THEN [chosen_reverse |-> detected = "True",
          warning |-> <<IF detected = "True" THEN "looks like DMS"
                        ELSE "looks like decimal">>]
    ELSE [chosen_reverse |-> a.reverse, warning |-> <<>>]

\* Hint with the tests of args.reverse exchanged
HintSwapped(a, coord_fields) ==
    IF ~a.force THEN ""
    ELSE IF (\E k \in DOMAIN coord_fields : looks_like_dms(coord_fields[k]))
            /\ a.reverse
    THEN "try --reverse or remove --force"
    ELSE IF (\E k \in DOMAIN coord_fields : looks_like_decimal(coord_fields[k]))
            /\ ~a.reverse
    THEN "remove --reverse or remove --force"
    ELSE ""

\* main, lines 250-257: the hint of a failed conversion
Hint(a, coord_fields) ==
    IF ~a.force THEN ""
    ELSE IF (\E k \in DOMAIN coord_fields : looks_like_dms(coord_fields[k]))
            /\ ~a.reverse
    THEN "try --reverse or remove --force"
    ELSE IF (\E k \in DOMAIN coord_fields : looks_like_decimal(coord_fields[k]))
            /\ a.reverse
    THEN "remove --reverse or remove --force"
    ELSE ""

\* main, lines 247-260: the line is appended, or its error is raised again
\* (only a ValueError is caught, and gets the hint)
RunwayResult(parts, converted) ==
    IF converted.exc = ""
    THEN /\ out_lines' = Append(out_lines, converted.val)
         /\ i' = i + 1
         /\ UNCHANGED <<pc, error>>
    ELSE /\ pc' = "failed"
         /\ error' = [exc |-> converted.exc, msg |-> converted.msg,
                      hint |-> IF converted.exc = "ValueError"
                               THEN Hint(args, Slice(parts, 2, 2 + CoordCount))
                               ELSE "",
                      lineno |-> i + 1]
         /\ UNCHANGED <<out_lines, i>>

\* main, lines 236-260, of a data line with 11 or 12 fields
RunwayData(raw, parts, detected, dir) ==
    /\ locals' = [detected |-> detected,
                  chosen_reverse |-> dir.chosen_reverse,
                  at |-> i + 1]
    /\ stderr' = stderr \o dir.warning
    /\ RunwayResult(parts, convert_record_line(raw, dir.chosen_reverse,
                                               args.decimal_places))

\* main, lines 236-238: detect_mode is called only without --force
RunwayDetect(raw, parts, detected) ==
    RunwayData(raw, parts, detected, Direction(args, detected))

\* RunwayStep that strips the comment and blank lines it passes through
RunwayStepStripped(raw, parts) ==
    IF StartsWith(LStrip(raw), "#") \/ Strip(raw) = <<>>
    THEN /\ out_lines' = Append(out_lines, Strip(raw))
         /\ i' = i + 1
         /\ UNCHANGED <<stderr, pc, error, locals>>
    ELSE IF Len(parts) \notin {11, 12}
    THEN /\ pc' = "failed"
         /\ error' = [exc |-> "ValueError", msg |-> "field count",
                      hint |-> "", lineno |-> i + 1]
         /\ UNCHANGED <<out_lines, i, stderr, locals>>
    ELSE RunwayDetect(raw, parts,
                      IF args.force THEN locals.detected ELSE detect_mode(parts))

\* main, lines 224-260: one line of the input
RunwayStep(raw, parts) ==
    IF StartsWith(LStrip(raw), "#") \/ Strip(raw) = <<>>
    THEN /\ out_lines' = Append(out_lines, RStripNL(raw))
         /\ i' = i + 1
         /\ UNCHANGED <<stderr, pc, error, locals>>
    ELSE IF Len(parts) \notin {11, 12}
    THEN /\ pc' = "failed"
         /\ error' = [exc |-> "ValueError", msg |-> "field count",
                      hint |-> "", lineno |-> i + 1]
         /\ UNCHANGED <<out_lines, i, stderr, locals>>
    ELSE RunwayDetect(raw, parts,
                      IF args.force THEN locals.detected ELSE detect_mode(parts))

\* main: one pass of the loop over the input lines
RunwayLine ==
    /\ tool = "convert" /\ pc = "loop" /\ i < Len(input)
    /\ RunwayStep(input[i + 1], Split(Strip(input[i + 1]), ":"))
    /\ UNCHANGED <<tool, args, input, output, conv>>

\* OutputText without the newline after the last line
OutputTextNoNL(lines) == Join(lines, NL)

\* "\n".join(out_lines) + ("\n" if out_lines else "")
OutputText(lines) ==
    Join(lines, NL) \o (IF lines # <<>> THEN <<NL>> ELSE <<>>)

\* RunwayWrite that writes what has been converted so far after every line
RunwayWriteEager ==
    /\ tool = "convert" /\ pc = "loop"
    /\ output' = [written |-> TRUE, text |-> OutputText(out_lines)]
    /\ pc' = IF i = Len(input) THEN "done" ELSE "loop"
    /\ UNCHANGED <<tool, args, input, i, out_lines, stderr, error, locals, conv>>

\* main, lines 262-267
RunwayWrite ==
    /\ tool = "convert" /\ pc = "loop" /\ i = Len(input)
    /\ output' = [written |-> TRUE, text |-> OutputText(out_lines)]
    /\ pc' = "done"
    /\ UNCHANGED <<tool, args, input, i, out_lines, stderr, error, locals, conv>>

\* ------------------------------------------------ convert-coordinates.py
\* main, lines 156-158
GenericStep(converted) ==
    IF converted.exc # ""
    THEN /\ pc' = "failed"
         /\ error' = [exc |-> converted.exc, msg |-> converted.msg,
                      hint |-> "", lineno |-> i + 1]
         /\ UNCHANGED <<out_lines, i>>
    ELSE /\ out_lines' = IF converted.val # <<>>
                         THEN Append(out_lines, converted.val)
                         ELSE out_lines
         /\ i' = i + 1
         /\ UNCHANGED <<pc, error>>

\* main: one pass of the loop over the input lines
GenericLine ==
    /\ tool = "convert-coordinates" /\ pc = "loop" /\ i < Len(input)
    /\ GenericStep(convert_line(input[i + 1]))
    /\ UNCHANGED <<tool, args, input, stderr, output, locals, conv>>

\* main, lines 160-165
GenericWrite ==
    /\ tool = "convert-coordinates" /\ pc = "loop" /\ i = Len(input)
    /\ output' = [written |-> TRUE, text |-> OutputText(out_lines)]
    /\ pc' = "done"
    /\ UNCHANGED <<tool, args, input, i, out_lines, stderr, error, locals, conv>>

\* ------------------------------------------------------------ geojson.py
\* convert_file, lines 105-110
GeojsonStep(feat) ==
    IF feat.exc # ""
    THEN /\ pc' = "failed"
         /\ error' = [exc |-> "ValueError", msg |-> feat.msg,
                      hint |-> "", lineno |-> i + 1]
         /\ UNCHANGED <<out_lines, i>>
    ELSE /\ out_lines' = IF feat.val.type # "None"
                         THEN Append(out_lines, feat.val)
                         ELSE out_lines
         /\ i' = i + 1
         /\ UNCHANGED <<pc, error>>

\* convert_file: one pass of the loop over the lines
GeojsonLine ==
    /\ tool = "geojson" /\ pc = "loop" /\ i < Len(input)
    /\ GeojsonStep(parse_line(input[i + 1]))
    /\ UNCHANGED <<tool, args, input, stderr, output, locals, conv>>

\* main, lines 122-125: the FeatureCollection is written
GeojsonWrite ==
    /\ tool = "geojson" /\ pc = "loop" /\ i = Len(input)
    /\ output' = [written |-> TRUE, text |-> out_lines]
    /\ pc' = "done"
    /\ UNCHANGED <<tool, args, input, i, out_lines, stderr, error, locals, conv>>

Next ==
    \/ RunwayLine
    \/ RunwayWrite
    \/ GenericLine
    \/ GenericWrite
    \/ GeojsonLine
    \/ GeojsonWrite

Spec == Init /\ [][Next]_vars

\* ---------------------------------------------- runs of a single record
\* Every mix of well-formed DMS, decimal and junk tokens over the 8
\* coordinate fields, and records with one special token (a DMS token out of
\* range or of the wrong axis, nan, inf) at either end of otherwise uniform
\* fields.
MixedKinds == [1..CoordCount -> {"dms", "dec", "junk"}]

SpecialKinds ==
    {[j \in 1..CoordCount |-> IF j = at THEN k ELSE others] :
        at \in {1, CoordCount},
        k \in {"range", "axis", "nan", "inf"},
        others \in {"dms", "dec", "junk"}}

\* 7 coordinate fields: 10 fields in all with the taxitime alone, and 11
\* (the taxitime taken as the 8th coordinate) with the remarks
ShortKinds == {Rep(k, CoordCount - 1) : k \in {"dms", "dec", "junk"}}

\* 8 dms then 8 dec, and every split between the two
UniformKinds == {Rep("dms", n) \o Rep("dec", CoordCount - n) : n \in 0..CoordCount}

InitRecord ==
    /\ tool = "convert"
    /\ args \in [reverse : BOOLEAN, force : BOOLEAN,
                 decimal_places : {DefaultDecimalPlaces}]
    /\ \/ \E ks \in MixedKinds : input = <<Append(Rec(ks, TailTaxi), NL)>>
       \/ \E ks \in SpecialKinds \cup ShortKinds \cup UniformKinds,
             tails \in {TailTaxi, TailRemarks} :
             input = <<Append(Rec(ks, tails), NL)>>
    /\ Start

NextRecord ==
    \/ RunwayLine
    \/ RunwayWrite

SpecRecord == InitRecord /\ [][NextRecord]_vars

\* ------------------------------------------- one coordinate, both ways
\* abs(value) built from its degree, minute, second, millisecond and
\* sub-millisecond parts
Compose(deg, minute, sec, ms, sub) ==
    deg * DegUnit + minute * MinUnit + sec * SecUnit + ms * Sub + sub

SampleValues ==
    {Fin(neg, Compose(deg, minute, sec, ms, sub)) :
        neg \in BOOLEAN,
        deg \in 0..MaxDeg,
        minute \in {0, 29, 59},
        sec \in {0, 30, 59},
        ms \in {0, 1, 499, 500, 999},
        sub \in 0..(Sub - 1)}
    \cup {NaN, Inf(FALSE), Inf(TRUE)}

InitDms ==
    /\ tool = "none"
    /\ args = NoArgs
    /\ input = <<>>
    /\ i = 0
    /\ out_lines = <<>>
    /\ stderr = <<>>
    /\ output = [written |-> FALSE, text |-> <<>>]
    /\ pc = "done"
    /\ error = NoError
    /\ locals = NoLocals
    /\ conv \in [script : {"convert", "convert-coordinates"},
                 value : SampleValues,
                 is_lat : BOOLEAN,
                 step : {"start"},
                 dms : {<<>>},
                 back : {NaN},
                 exc : {""}]

\* the result of decimal_to_dms_hem is kept, or its exception
Rendered(r) ==
    conv' = [conv EXCEPT !.step = IF r.exc = "" THEN "dms" ELSE "raised",
                         !.dms = r.val,
                         !.exc = r.exc]

\* decimal_to_dms_hem(value, is_lat) of either script
ToDms ==
    /\ conv.step = "start"
    /\ Rendered(IF conv.script = "convert"
                THEN decimal_to_dms_hem(conv.value, conv.is_lat)
                ELSE cc_decimal_to_dms_hem(conv.value, conv.is_lat))
    /\ UNCHANGED <<tool, args, input, i, out_lines, stderr, output, pc, error, locals>>

\* the result of dms_hem_to_decimal is kept, or its exception
Parsed(r) ==
    conv' = [conv EXCEPT !.step = IF r.exc = "" THEN "back" ELSE "raised",
                         !.back = r.val,
                         !.exc = r.exc]

\* dms_hem_to_decimal(text, is_lat) of the string just rendered
FromDms ==
    /\ conv.step = "dms"
    /\ Parsed(dms_hem_to_decimal(conv.dms, conv.is_lat))
    /\ UNCHANGED <<tool, args, input, i, out_lines, stderr, output, pc, error, locals>>

NextDms ==
    \/ ToDms
    \/ FromDms

SpecDms == InitDms /\ [][NextDms]_vars

\* ================================================================ claims
\* the 8 coordinate tokens (positions 2..9) of input line k
CoordTokens(k) == Slice(Split(Strip(input[k]), ":"), 2, 2 + CoordCount)

FieldCount(k) == Len(Split(Strip(input[k]), ":"))

CountDms(tokens) ==
    Cardinality({j \in DOMAIN tokens : looks_like_dms(tokens[j])})

CountDec(tokens) ==
    Cardinality({j \in DOMAIN tokens : looks_like_decimal(tokens[j])})

NumDms(k) == CountDms(CoordTokens(k))

NumDec(k) == CountDec(CoordTokens(k))

\* the rule of the detector on dms DMS-pattern and dec float-parseable tokens
DetectRule(dms, dec, detected) ==
    /\ (dms = 8 /\ dec = 0) => detected = "True"
    /\ (dec = 8 /\ dms = 0) => detected = "False"
    /\ (dms > dec /\ dms >= 4) => detected = "True"
    /\ (dec > dms /\ dec >= 4) => detected = "False"
    /\ (~(dms > dec /\ dms >= 4) /\ ~(dec > dms /\ dec >= 4)) => detected = "None"
    /\ (dms = 4 /\ dec = 4) => detected = "None"

\* C1: detect_mode on the 8 coordinate tokens of a runway record returns
\* reverse for 8 DMS and no decimal, forward for 8 decimal and no DMS,
\* otherwise reverse when DMS hits > decimal hits and DMS hits >= 4, forward
\* when decimal hits > DMS hits and decimal hits >= 4, and None in every
\* other case, in particular for 4 DMS + 4 decimal.
C1_DetectMode ==
    (tool = "convert" /\ locals.at > 0 /\ ~args.force) =>
        DetectRule(NumDms(locals.at), NumDec(locals.at), locals.detected)

C1_Witness ==
    /\ tool = "convert" /\ locals.at = 1 /\ ~args.force
    /\ NumDms(1) = 4 /\ NumDec(1) = 4
    /\ locals.detected = "None"

\* the outcome of a step, had its line been converted with result r
ConvertedAs(r) ==
    IF r.exc = ""
    THEN out_lines' = Append(out_lines, r.val) /\ pc' = "loop"
    ELSE out_lines' = out_lines /\ pc' = "failed" /\ error'.exc = r.exc

\* the step of a data line: no warning, requested direction
Requested(raw) ==
    /\ stderr' = stderr
    /\ locals'.chosen_reverse = args.reverse
    /\ ConvertedAs(convert_record_line(raw, args.reverse, args.decimal_places))

\* the step of a data line: a warning, detected direction
Switched(raw, det) ==
    /\ Len(stderr') = Len(stderr) + 1
    /\ locals'.chosen_reverse = (det = "True")
    /\ ConvertedAs(convert_record_line(raw, det = "True", args.decimal_places))

DirectionRule(raw, det, req) ==
    /\ args.force => Requested(raw)
    /\ (~args.force /\ det \notin {"None", req}) => Switched(raw, det)
    /\ (~args.force /\ det \in {"None", req}) => Requested(raw)

\* C2: for every data line of the runway tool: without --force, a detected
\* direction that differs from the requested one is warned about on the error
\* stream and used for the conversion; with --force the requested direction
\* is used and nothing is warned; when the detector returns None or agrees,
\* the requested direction is used and nothing is warned.
C2_Direction ==
    [][(tool = "convert" /\ locals'.at # locals.at) =>
          DirectionRule(input[locals'.at],
                        detect_mode(Split(Strip(input[locals'.at]), ":")),
                        IF args.reverse THEN "True" ELSE "False")]_vars

C2_Witness ==
    /\ tool = "convert" /\ ~args.force /\ args.reverse
    /\ locals.at = 1 /\ locals.detected = "False"
    /\ ~locals.chosen_reverse
    /\ Len(stderr) = 1
    /\ out_lines # <<>>

\* C3 as stated: with --force, every parse failure of a data line carries
\* the direction hint.
C3_HintOnEveryFailure ==
    (tool = "convert" /\ args.force /\ pc = "failed") => error.hint # ""

HintRule(fields, dms, dec) ==
    error.hint # "" <=>
        /\ fields \in {11, 12}
        /\ error.exc = "ValueError"
        /\ (dms > 0 /\ ~args.reverse) \/ (dec > 0 /\ args.reverse)

\* C3, amended: with --force, a failed data line carries the hint exactly
\* when the failure is a ValueError raised by convert_record_line on a line
\* of 11 or 12 fields whose coordinate tokens look like the other direction
\* (a DMS-pattern token and --reverse not set, or a float-parseable token and
\* --reverse set); a wrong field count, an OverflowError and tokens that
\* look like neither carry no hint.
C3_HintWhenOtherDirection ==
    (tool = "convert" /\ args.force /\ pc = "failed") =>
        HintRule(FieldCount(error.lineno), NumDms(error.lineno),
                 NumDec(error.lineno))

C3_Witness ==
    /\ tool = "convert" /\ args.force /\ ~args.reverse /\ pc = "failed"
    /\ NumDms(error.lineno) = 8
    /\ error.hint # ""

\* the signed value of a float, in units
Signed(value) == IF value.neg THEN 0 - value.mag ELSE value.mag

Abs(n) == IF n < 0 THEN 0 - n ELSE n

\* a finite value that is a whole number of milliseconds of arc
WholeMs(value) == value.kind = "fin" /\ value.mag % Sub = 0

\* C4: for a decimal degree value d rounded to the millisecond of arc,
\* dms_hem_to_decimal(decimal_to_dms_hem(d, axis), axis) is within one
\* millisecond of arc (1/3600000 degree) of d, and has the sign of d when d
\* is not zero.
C4_RoundTrip ==
    (conv.script = "convert" /\ WholeMs(conv.value)) =>
        /\ conv.step # "raised"
        /\ conv.step = "back" =>
              /\ conv.back.kind = "fin"
              /\ Abs(Signed(conv.back) - Signed(conv.value)) <= Sub
              /\ conv.value.mag # 0 =>
                    (conv.back.mag # 0 /\ conv.back.neg = conv.value.neg)

C4_Witness ==
    /\ conv.script = "convert" /\ conv.step = "back"
    /\ WholeMs(conv.value) /\ conv.value.neg /\ ~conv.is_lat
    /\ conv.value.mag = Compose(1, 59, 59, 999, 0)
    /\ conv.back = conv.value

\* the four number groups of a rendered string, after the hemisphere letter
Groups(dms) == Split(Tail(dms), ".")

\* C5: every string returned by decimal_to_dms_hem, in either script, is
\* H DDD.MM.SS.mmm with H = N/S for a latitude and E/W for a longitude (N/E
\* when value >= 0, zero included), DDD >= 0 (three digits, or more from
\* 1000 degrees on), 0 <= MM < 60, 0 <= SS < 60 and 0 <= mmm < 1000.
C5_Shape ==
    (conv.step \in {"dms", "back"}) =>
        LET g == Groups(conv.dms)
        IN  /\ conv.dms[1] = IF conv.is_lat
                             THEN (IF GeZero(conv.value) THEN "N" ELSE "S")
                             ELSE (IF GeZero(conv.value) THEN "E" ELSE "W")
            /\ Len(g) = 4
            /\ \A n \in 1..4 : AllDigits(g[n])
            /\ Len(g[1]) >= 3 /\ (DigitsVal(g[1]) < 1000 => Len(g[1]) = 3)
            /\ Len(g[2]) = 2 /\ Len(g[3]) = 2 /\ Len(g[4]) = 3
            /\ DigitsVal(g[1]) >= 0
            /\ DigitsVal(g[2]) < 60
            /\ DigitsVal(g[3]) < 60
            /\ DigitsVal(g[4]) < 1000

C5_Witness ==
    /\ conv.step = "dms" /\ conv.script = "convert-coordinates"
    /\ conv.value = Fin(TRUE, 0) /\ ~conv.is_lat
    /\ conv.dms[1] = "E"
    /\ Groups(conv.dms) = <<Pad(0, 3), Pad(0, 2), Pad(0, 2), Pad(0, 3)>>

\* the milliseconds of arc a rendered string stands for
ShownMs(dms) ==
    LET g == Groups(dms)
    IN  ((DigitsVal(g[1]) * MinPerDeg + DigitsVal(g[2])) * SecPerMin
         + DigitsVal(g[3])) * MsPerSec + DigitsVal(g[4])

\* the seconds of abs(value) past its whole minute round to 60.000
RoundsToSixty(value) ==
    RoundDiv(value.mag % MinUnit, Sub) = SecPerMin * MsPerSec

C7_NoPartialOutput ==
    /\ output.written => (pc = "done" /\ i = Len(input) /\ error.exc = "")
    /\ pc = "failed" => (~output.written /\ output.text = <<>> /\ error.exc # "")
    /\ pc = "loop" => ~output.written

C7_Witness ==
    /\ tool = "geojson" /\ pc = "failed"
    /\ error.lineno = 2 /\ Len(out_lines) = 1
    /\ ~output.written

EndsWithOneNewline(text) ==
    /\ text # <<>>
    /\ text[Len(text)] = NL
    /\ Len(text) >= 2 => text[Len(text) - 1] # NL

\* C8 as stated: the output text of the generic and of the runway
\* transcoder is empty or ends with exactly one newline.
C8_ExactlyOneNewline ==
    (tool \in {"convert", "convert-coordinates"} /\ output.written) =>
        (output.text = <<>> \/ EndsWithOneNewline(output.text))

\* input line k is nothing but its line end
EmptyLine(k) == \A n \in 1..Len(input[k]) : input[k][n] = NL

\* C8, amended: the output of the generic transcoder is empty or ends with
\* exactly one newline; the output of the runway transcoder is empty (for an
\* empty input) or ends with a newline, and the character before that
\* newline is a newline exactly when the last input line is empty and is
\* not the only line.
C8_TrailingNewline ==
    /\ (tool = "convert-coordinates" /\ output.written) =>
          /\ output.text = <<>> <=> out_lines = <<>>
          /\ output.text # <<>> => EndsWithOneNewline(output.text)
    /\ (tool = "convert" /\ output.written) =>
          /\ output.text = <<>> <=> input = <<>>
          /\ output.text # <<>> => output.text[Len(output.text)] = NL
          /\ Len(output.text) >= 2 =>
                (output.text[Len(output.text) - 1] = NL
                    <=> (Len(input) >= 2 /\ EmptyLine(Len(input))))

C8_Witness ==
    /\ tool = "convert" /\ output.written
    /\ Len(input) = 2 /\ ~EmptyLine(1) /\ EmptyLine(2)
    /\ Len(output.text) >= 2
    /\ output.text[Len(output.text)] = NL
    /\ output.text[Len(output.text) - 1] = NL

\* a line without its line end
Content(raw) ==
    IF raw # <<>> /\ raw[Len(raw)] = NL THEN SubSeq(raw, 1, Len(raw) - 1) ELSE raw

\* a comment line or a blank line
PassThrough(raw) == Strip(raw) = <<>> \/ Head(Strip(raw)) = "#"

\* what the generic tool is to emit for the first n input lines
RECURSIVE GenericExpected(_)
GenericExpected(n) ==
    IF n = 0 THEN <<>>
    ELSE IF PassThrough(input[n]) THEN GenericExpected(n - 1)
    ELSE Append(GenericExpected(n - 1), convert_line(input[n]).val)

RECURSIVE Terminated(_)
\* every line followed by a newline
Terminated(lines) ==
    IF lines = <<>> THEN <<>>
    ELSE Head(lines) \o <<NL>> \o Terminated(Tail(lines))

\* C9: while no line has failed, the runway tool has emitted one output line
\* per input line, in input order, a comment or blank line unchanged and a
\* data line converted; the generic tool has emitted, in input order, the
\* conversions of the data lines only; the text written is these lines.
C9_LineOrder ==
    /\ (tool = "convert" /\ pc # "failed") =>
          /\ Len(out_lines) = i
          /\ \A k \in 1..i :
                IF PassThrough(input[k])
                THEN out_lines[k] = Content(input[k])
                ELSE \E rev \in BOOLEAN :
                        out_lines[k] = convert_record_line(
                                           input[k], rev, args.decimal_places).val
          /\ output.written => output.text = Terminated(out_lines)
    /\ (tool = "convert-coordinates" /\ pc # "failed") =>
          /\ out_lines = GenericExpected(i)
          /\ output.written => output.text = Terminated(out_lines)

C9_Witness ==
    /\ tool = "convert" /\ output.written /\ Len(input) = 2
    /\ input[1] = Append(LineIndented, NL)
    /\ input[2] = Append(LineDec, NL)
    /\ out_lines[1] = LineIndented
    /\ out_lines[2] # LineDec

Mixed(fields, dms, dec) == fields \in {11, 12} /\ dms > 0 /\ dec > 0

\* input line k has 11 or 12 fields, and a DMS-pattern token and a
\* float-parseable token among its 8 coordinate tokens
MixedRecord(k) == Mixed(FieldCount(k), NumDms(k), NumDec(k))

\* C10: whatever --reverse, --force and the detector say, a record of 11 or
\* 12 fields that mixes a DMS-pattern token with a float-parseable token
\* never converts: its step raises, the run ends, nothing is emitted.
C10_MixedNeverConverts ==
    (tool = "convert" /\ Len(input) = 1 /\ MixedRecord(1)) =>
        /\ out_lines = <<>>
        /\ ~output.written
        /\ \/ pc = "loop" /\ i = 0
           \/ pc = "failed" /\ error.exc # "" /\ error.lineno = 1

C10_Witness ==
    /\ tool = "convert" /\ ~args.force /\ ~args.reverse
    /\ Len(input) = 1 /\ MixedRecord(1)
    /\ NumDms(1) = 5 /\ NumDec(1) = 3
    /\ locals.detected = "True"
    /\ pc = "failed"

====
